---- MODULE Spec2Model ----
(***************************************************************************)
(* A model of nalgebra-sparse's SparsityPattern                            *)
(* (nalgebra-sparse/src/pattern.rs): the empty constructor `new`, the      *)
(* validating constructor `try_from_offsets_and_indices`, the accessors,   *)
(* `lane`, and the entry iterator SparsityPatternIter; and of the          *)
(* recomposition of linalg's Polar (src/linalg/polar.rs).                  *)
(*                                                                         *)
(* Rust slices and vectors are 0-based; TLA+ sequences are 1-based.  At    *)
(* and Slice translate.  Option<T> is a sequence of length at most one.    *)
(* Dimensions range over naturals well below usize::MAX, so `major_dim +   *)
(* 1` does not wrap.                                                       *)
(***************************************************************************)
EXTENDS Integers, Sequences, FiniteSets, TLC

\* Largest major dimension tried; offset vectors have up to MaxMajor + 1 entries.
MaxMajor == 3
\* Largest number of minor indices handed to the constructor.
MaxNnz == 2
\* Largest minor dimension tried; minor index values range over its valid
\* positions 0 .. MaxMinor - 1 (out of bounds for the smaller dimensions).
MaxMinor == 2
\* Number of distinct dense matrices a factor of a Polar is drawn from.
MaxMatrix == 3

VARIABLES
    pc,                \* position in try_from_offsets_and_indices / lifecycle
    in_major_dim,      \* argument major_dim of the constructor called
    in_minor_dim,      \* argument minor_dim
    in_major_offsets,  \* argument major_offsets
    in_minor_indices,  \* argument minor_indices
    origin,            \* which constructor was called: "none", "new", "try"
    lane_idx,          \* loop variable of `for lane_idx in 0 .. major_dim`
    range_start,       \* local range_start of the current lane
    range_end,         \* local range_end of the current lane
    pos,               \* position of `iter` in the backing minor_indices
    prev,              \* local `prev`: Option<usize>
    visited,           \* history: positions of minor_indices read by the scan
    result,            \* outcome of try_from_offsets_and_indices
    message,           \* which error message the outcome carries
    pattern,           \* Option<SparsityPattern>: the pattern that exists
    iter,              \* Option<SparsityPatternIter>
    yielded,           \* history: the pairs the iterator returned so far
    last_next,         \* Option<Option<(usize, usize)>>: last return of next()
    lane_result,       \* Option<[arg, ret]>: last lane(major_index) call
    iter2,             \* Option<SparsityPatternIter>: a second iterator
    yielded2,          \* history: the pairs the second iterator returned
    last_next2,        \* last return of next() on the second iterator
    polar,             \* Option<Polar>: the decomposition a caller holds
    recomposed         \* Option<[self, side, ret]>: last recompose_* call

vars == <<pc, in_major_dim, in_minor_dim, in_major_offsets, in_minor_indices,
          origin, lane_idx, range_start, range_end, pos, prev, visited,
          result, message, pattern, iter, yielded, last_next, lane_result,
          iter2, yielded2, last_next2, polar, recomposed>>

validation_vars == <<lane_idx, range_start, range_end, pos, prev, visited>>

input_vars == <<in_major_dim, in_minor_dim, in_major_offsets, in_minor_indices, origin>>

second_vars == <<iter2, yielded2, last_next2>>

reader_vars == <<iter, yielded, last_next, lane_result, iter2, yielded2, last_next2>>

polar_vars == <<polar, recomposed>>

\* ---------------------------------------------------------------- helpers

\* Option::None
None == <<>>

\* Option::Some(x)
Some(x) == <<x>>

\* s[i] of a 0-based slice
At(s, i) == s[i + 1]

\* &s[lo .. hi] of a 0-based slice (lo <= hi <= len is the caller's duty)
Slice(s, lo, hi) == SubSeq(s, lo + 1, hi)

\* whether &s[lo .. hi] is a valid range of a slice of length len (else: panic)
SliceOk(lo, hi, len) == lo <= hi /\ hi <= len

\* all sequences over S of length at most n
SeqsUpTo(S, n) == UNION {[1..k -> S] : k \in 0..n}

\* ------------------------------------------------------- SparsityPattern

\* struct SparsityPattern { major_offsets, minor_indices, minor_dim }
SparsityPattern(offsets, indices, nd) == [major_offsets |-> offsets, minor_indices |-> indices, minor_dim |-> nd]

\* mutant: one offset too few
new_OffsetsTooShort(md, nd) == SparsityPattern([i \in 1..md |-> 0], <<>>, nd)

\* SparsityPattern::new: vec![0; major_dim + 1], vec![], minor_dim
new(md, nd) == SparsityPattern([i \in 1..(md + 1) |-> 0], <<>>, nd)

\* fn major_offsets(&self)
major_offsets(p) == p.major_offsets

\* fn minor_indices(&self)
minor_indices(p) == p.minor_indices

\* fn major_dim(&self): major_offsets.len() - 1
major_dim(p) == Len(p.major_offsets) - 1

\* fn minor_dim(&self)
minor_dim(p) == p.minor_dim

\* fn nnz(&self): minor_indices.len()
nnz(p) == Len(p.minor_indices)

\* slice.get(i): Option
Get(s, i) == IF i < Len(s) THEN Some(At(s, i)) ELSE None

\* mutant: an empty lane reported as absent
lane_EmptyIsNone(p, major_index) ==
    LET offset_begin == Get(major_offsets(p), major_index)
        offset_end == Get(major_offsets(p), major_index + 1)
    IN IF offset_begin = None \/ offset_end = None THEN None
       ELSE IF ~SliceOk(offset_begin[1], offset_end[1], Len(minor_indices(p))) THEN Some("Panic")
       ELSE IF offset_begin[1] = offset_end[1] THEN None
       ELSE Some(Slice(minor_indices(p), offset_begin[1], offset_end[1]))

\* mutant: every lane taken from the start of minor_indices
lane_FromZero(p, major_index) ==
    LET offset_begin == Get(major_offsets(p), major_index)
        offset_end == Get(major_offsets(p), major_index + 1)
    IN IF offset_begin = None \/ offset_end = None THEN None
       ELSE IF ~SliceOk(0, offset_end[1], Len(minor_indices(p))) THEN Some("Panic")
       ELSE Some(Slice(minor_indices(p), 0, offset_end[1]))

\* fn lane(&self, major_index): None when either offset is missing, else the
\* sub-slice; "Panic" when the range is not a valid range of minor_indices.
lane(p, major_index) ==
    LET offset_begin == Get(major_offsets(p), major_index)
        offset_end == Get(major_offsets(p), major_index + 1)
    IN IF offset_begin = None \/ offset_end = None THEN None
       ELSE IF ~SliceOk(offset_begin[1], offset_end[1], Len(minor_indices(p))) THEN Some("Panic")
       ELSE Some(Slice(minor_indices(p), offset_begin[1], offset_end[1]))

\* ----------------------------------------------------- SparsityPatternIter

\* struct SparsityPatternIter: the two borrowed slices are those of the pattern;
\* remaining_minors_in_lane is the slice minor_indices[lo .. hi]; panicked
\* records an index or range outside the backing arrays.
SparsityPatternIter(cur, lo, hi, bad) == [current_lane_idx |-> cur, lo |-> lo, hi |-> hi, panicked |-> bad]

\* the slice remaining_minors_in_lane of an iterator over p
remaining_minors_in_lane(p, it) == Slice(minor_indices(p), it.lo, it.hi)

\* SparsityPatternIter::from_pattern
from_pattern(p) ==
    LET got == Get(major_offsets(p), 1)
        first_lane_end == IF got = None THEN 0 ELSE got[1]
    IN SparsityPatternIter(0, 0, first_lane_end, ~SliceOk(0, first_lane_end, Len(minor_indices(p))))

\* fn entries(&self)
entries(p) == from_pattern(p)

\* mutant: the end-of-lanes test lets the index reach major_dim
LanesExhausted_Late(cur, len) == cur + 1 >= len

\* mutant: the end-of-lanes test off by one
LanesExhausted_Early(cur, len) == cur + 3 >= len

\* self.current_lane_idx + 2 >= self.major_offsets.len()
LanesExhausted(cur, len) == cur + 2 >= len

\* the `loop` of next(): keep skipping lanes until a non-empty lane is found or
\* there are no more lanes.  cur is current_lane_idx on entry of a turn.
RECURSIVE SkipLanes(_, _, _)
SkipLanes(p, it, cur) ==
    IF LanesExhausted(cur, Len(major_offsets(p)))
    THEN [ret |-> None, it |-> SparsityPatternIter(cur, it.lo, it.hi, FALSE)]
    ELSE LET c == cur + 1
             lower == Get(major_offsets(p), c)
             upper == Get(major_offsets(p), c + 1)
         IN IF lower = None \/ upper = None
            THEN [ret |-> None, it |-> SparsityPatternIter(c, it.lo, it.hi, TRUE)]
            ELSE IF upper[1] > lower[1]
            THEN IF SliceOk(lower[1] + 1, upper[1], Len(minor_indices(p)))
                 THEN [ret |-> Some(<<c, At(minor_indices(p), lower[1])>>), it |-> SparsityPatternIter(c, lower[1] + 1, upper[1], FALSE)]
                 ELSE [ret |-> None, it |-> SparsityPatternIter(c, it.lo, it.hi, TRUE)]
            ELSE SkipLanes(p, it, c)

\* mutant: an exhausted iterator starts over from lane 0
next_Restarting(p, it) ==
    IF it.lo < it.hi
    THEN [ret |-> Some(<<it.current_lane_idx, At(minor_indices(p), it.lo)>>), it |-> SparsityPatternIter(it.current_lane_idx, it.lo + 1, it.hi, FALSE)]
    ELSE LET r == SkipLanes(p, it, it.current_lane_idx)
         IN IF r.ret = None THEN [ret |-> None, it |-> from_pattern(p)] ELSE r

\* mutant: the tail is not advanced past the item returned
next_TailNotAdvanced(p, it) ==
    IF it.lo < it.hi
    THEN [ret |-> Some(<<it.current_lane_idx, At(minor_indices(p), it.lo)>>), it |-> it]
    ELSE SkipLanes(p, it, it.current_lane_idx)

\* Iterator::next: the returned item and the iterator afterwards
next(p, it) ==
    IF it.lo < it.hi
    THEN [ret |-> Some(<<it.current_lane_idx, At(minor_indices(p), it.lo)>>), it |-> SparsityPatternIter(it.current_lane_idx, it.lo + 1, it.hi, FALSE)]
    ELSE SkipLanes(p, it, it.current_lane_idx)

\* --------------------------------------- try_from_offsets_and_indices: checks

\* the error messages of try_from_offsets_and_indices
MsgSize == "Size of major_offsets must be equal to (major_dim + 1)"

MsgFirst == "First entry in major_offsets must always be 0."

MsgLast == "Last entry in major_offsets must always be equal to minor_indices.len()"

MsgOffsets == "Major offsets are not monotonically increasing."

MsgBounds == "Minor index out of bounds."

MsgSorted == "Minor indices within a lane must be monotonically increasing (sorted)."

MsgDuplicate == "Duplicate minor entries detected."

\* mutant: one offset more than major_dim + 1 is asked for
LengthMismatch_OneMore(offsets, md) == Len(offsets) # md + 2

\* major_offsets.len() != major_dim + 1
LengthMismatch(offsets, md) == Len(offsets) # md + 1

\* mutant: the first-offset check left out
FirstOffsetBad_Skipped(offsets) == FALSE

\* *major_offsets.first().unwrap() != 0
FirstOffsetBad(offsets) == At(offsets, 0) # 0

\* mutant: the last-offset check left out
LastOffsetBad_Skipped(offsets, indices) == FALSE

\* *major_offsets.last().unwrap() != minor_indices.len()
LastOffsetBad(offsets, indices) == At(offsets, Len(offsets) - 1) # Len(indices)

\* range_start > range_end
OffsetsDecrease(start, end) == start > end

\* mutant: the bound test made inclusive
OutOfBounds_Inclusive(nxt, nd) == nxt >= nd

\* next > minor_dim
OutOfBounds(nxt, nd) == nxt > nd

\* mutant: the order comparison flipped
Unsorted_Flipped(prv, nxt) == prv < nxt

\* prev > next
Unsorted(prv, nxt) == prv > nxt

\* mutant: the duplicate check left out
Duplicate_Skipped(prv, nxt) == FALSE

\* prev == next
Duplicate(prv, nxt) == prv = nxt

\* ------------------------------------------------------------------ Init

Init ==
    /\ pc = "idle"
    /\ in_major_dim = 0
    /\ in_minor_dim = 0
    /\ in_major_offsets = <<>>
    /\ in_minor_indices = <<>>
    /\ origin = "none"
    /\ lane_idx = 0
    /\ range_start = 0
    /\ range_end = 0
    /\ pos = 0
    /\ prev = None
    /\ visited = <<>>
    /\ result = "none"
    /\ message = "none"
    /\ pattern = None
    /\ iter = None
    /\ yielded = <<>>
    /\ last_next = None
    /\ lane_result = None
    /\ iter2 = None
    /\ yielded2 = <<>>
    /\ last_next2 = None
    /\ polar = None
    /\ recomposed = None

\* ------------------------------------------------------------ constructors

\* A caller calls SparsityPattern::new(md, nd); the call returns the pattern.
CallNew ==
    /\ pc = "idle"
    /\ \E md \in 0..MaxMajor, nd \in 0..MaxMinor :
        /\ in_major_dim' = md
        /\ in_minor_dim' = nd
        /\ pattern' = Some(new(md, nd))
    /\ origin' = "new"
    /\ pc' = "ready"
    /\ UNCHANGED <<in_major_offsets, in_minor_indices, result, message>>
    /\ UNCHANGED validation_vars
    /\ UNCHANGED reader_vars
    /\ UNCHANGED polar_vars

\* return Err(kind(message)) / a panic: the call ends, no pattern exists
Fail(kind, msg) ==
    /\ pc' = "returned"
    /\ result' = kind
    /\ message' = msg
    /\ UNCHANGED pattern

\* A caller calls try_from_offsets_and_indices with arbitrary arguments; the
\* function makes the length check and the first/last offset checks, in this
\* order, and then enters the loop over the lanes.
CallTryCreate ==
    /\ pc = "idle"
    /\ \E md \in 0..MaxMajor, nd \in 0..MaxMinor :
       \E indices \in SeqsUpTo(0..(MaxMinor - 1), MaxNnz) :
       \E offsets \in SeqsUpTo(0..(MaxNnz + 1), MaxMajor + 1) :
        /\ in_major_dim' = md
        /\ in_minor_dim' = nd
        /\ in_minor_indices' = indices
        /\ in_major_offsets' = offsets
        /\ IF LengthMismatch(offsets, md)
           THEN Fail("InvalidStructure", MsgSize)
           ELSE IF FirstOffsetBad(offsets)
           THEN Fail("InvalidStructure", MsgFirst)
           ELSE IF LastOffsetBad(offsets, indices)
           THEN Fail("InvalidStructure", MsgLast)
           ELSE /\ pc' = "lane"
                /\ UNCHANGED <<result, message, pattern>>
    /\ origin' = "try"
    /\ UNCHANGED validation_vars
    /\ UNCHANGED reader_vars
    /\ UNCHANGED polar_vars

\* mutant: the lane's slice taken from the start of minor_indices, [.. range_end]
LaneStart_FromZero ==
    /\ pc = "lane"
    /\ IF lane_idx >= in_major_dim
       THEN /\ pc' = "ready"
            /\ result' = "Ok"
            /\ pattern' = Some(SparsityPattern(in_major_offsets, in_minor_indices, in_minor_dim))
            /\ UNCHANGED message
            /\ UNCHANGED validation_vars
       ELSE LET start == At(in_major_offsets, lane_idx)
                end == At(in_major_offsets, lane_idx + 1)
            IN /\ range_start' = start
               /\ range_end' = end
               /\ UNCHANGED <<lane_idx, visited>>
               /\ IF OffsetsDecrease(start, end)
                  THEN /\ Fail("InvalidStructure", MsgOffsets)
                       /\ UNCHANGED <<pos, prev>>
                  ELSE IF ~SliceOk(start, end, Len(in_minor_indices))
                  THEN /\ Fail("Panic", "slice index out of range")
                       /\ UNCHANGED <<pos, prev>>
                  ELSE /\ pc' = "scan"
                       /\ pos' = 0
                       /\ prev' = None
                       /\ UNCHANGED <<result, message, pattern>>
    /\ UNCHANGED input_vars
    /\ UNCHANGED reader_vars
    /\ UNCHANGED polar_vars

\* one turn of `for lane_idx in 0 .. major_dim` up to the creation of `iter`;
\* when the loop is over, Ok(Self { .. }) is returned.
LaneStart ==
    /\ pc = "lane"
    /\ IF lane_idx >= in_major_dim
       THEN /\ pc' = "ready"
            /\ result' = "Ok"
            /\ pattern' = Some(SparsityPattern(in_major_offsets, in_minor_indices, in_minor_dim))
            /\ UNCHANGED message
            /\ UNCHANGED validation_vars
       ELSE LET start == At(in_major_offsets, lane_idx)
                end == At(in_major_offsets, lane_idx + 1)
            IN /\ range_start' = start
               /\ range_end' = end
               /\ UNCHANGED <<lane_idx, visited>>
               /\ IF OffsetsDecrease(start, end)
                  THEN /\ Fail("InvalidStructure", MsgOffsets)
                       /\ UNCHANGED <<pos, prev>>
                  ELSE IF ~SliceOk(start, end, Len(in_minor_indices))
                  THEN /\ Fail("Panic", "slice index out of range")
                       /\ UNCHANGED <<pos, prev>>
                  ELSE /\ pc' = "scan"
                       /\ pos' = start
                       /\ prev' = None
                       /\ UNCHANGED <<result, message, pattern>>
    /\ UNCHANGED input_vars
    /\ UNCHANGED reader_vars
    /\ UNCHANGED polar_vars

\* one turn of `while let Some(next) = iter.next().copied()`; when the lane's
\* slice is used up the for loop goes to the next lane.
ScanIndex ==
    /\ pc = "scan"
    /\ IF pos >= range_end
       THEN /\ lane_idx' = lane_idx + 1
            /\ pc' = "lane"
            /\ UNCHANGED <<range_start, range_end, pos, prev, visited>>
            /\ UNCHANGED <<result, message, pattern>>
       ELSE LET nxt == At(in_minor_indices, pos)
            IN /\ visited' = Append(visited, pos)
               /\ pos' = pos + 1
               /\ UNCHANGED <<lane_idx, range_start, range_end>>
               /\ IF OutOfBounds(nxt, in_minor_dim)
                  THEN /\ Fail("IndexOutOfBounds", MsgBounds)
                       /\ UNCHANGED prev
                  ELSE IF prev # None /\ Unsorted(prev[1], nxt)
                  THEN /\ Fail("InvalidStructure", MsgSorted)
                       /\ UNCHANGED prev
                  ELSE IF prev # None /\ Duplicate(prev[1], nxt)
                  THEN /\ Fail("DuplicateEntry", MsgDuplicate)
                       /\ UNCHANGED prev
                  ELSE /\ prev' = Some(nxt)
                       /\ UNCHANGED <<pc, result, message, pattern>>
    /\ UNCHANGED input_vars
    /\ UNCHANGED reader_vars
    /\ UNCHANGED polar_vars

\* --------------------------------------------------------------- readers

\* A holder of the pattern calls entries(): a fresh iterator.
Entries ==
    /\ pc = "ready"
    /\ pattern # None
    /\ iter' = Some(entries(pattern[1]))
    /\ yielded' = <<>>
    /\ last_next' = None
    /\ UNCHANGED <<pc, result, message, pattern, lane_result>>
    /\ UNCHANGED second_vars
    /\ UNCHANGED input_vars
    /\ UNCHANGED validation_vars
    /\ UNCHANGED polar_vars

\* The holder of the iterator calls next().
IterNext ==
    /\ pc = "ready"
    /\ iter # None
    /\ ~iter[1].panicked
    /\ LET r == next(pattern[1], iter[1])
       IN /\ iter' = Some(r.it)
          /\ last_next' = Some(r.ret)
          /\ yielded' = IF r.ret = None THEN yielded ELSE Append(yielded, r.ret[1])
    /\ UNCHANGED <<pc, result, message, pattern, lane_result>>
    /\ UNCHANGED second_vars
    /\ UNCHANGED input_vars
    /\ UNCHANGED validation_vars
    /\ UNCHANGED polar_vars

\* A holder of the pattern calls lane(major_index).
Lane ==
    /\ pc = "ready"
    /\ pattern # None
    /\ \E major_index \in 0..(MaxMajor + 1) :
        lane_result' = Some([arg |-> major_index, ret |-> lane(pattern[1], major_index)])
    /\ UNCHANGED <<pc, result, message, pattern, iter, yielded, last_next>>
    /\ UNCHANGED second_vars
    /\ UNCHANGED input_vars
    /\ UNCHANGED validation_vars
    /\ UNCHANGED polar_vars

\* Another holder of the pattern calls entries(): a second, fresh iterator
\* over the same pattern, at any time.
Entries2 ==
    /\ pc = "ready"
    /\ pattern # None
    /\ iter2' = Some(entries(pattern[1]))
    /\ yielded2' = <<>>
    /\ last_next2' = None
    /\ UNCHANGED <<pc, result, message, pattern, lane_result, iter, yielded, last_next>>
    /\ UNCHANGED input_vars
    /\ UNCHANGED validation_vars
    /\ UNCHANGED polar_vars

\* mutant: the two iterators advance one shared cursor
IterNext2_SharedCursor ==
    /\ pc = "ready"
    /\ iter2 # None
    /\ ~iter2[1].panicked
    /\ LET r == next(pattern[1], iter2[1])
       IN /\ iter2' = Some(r.it)
          /\ last_next2' = Some(r.ret)
          /\ yielded2' = IF r.ret = None THEN yielded2 ELSE Append(yielded2, r.ret[1])
          /\ iter' = IF iter = None THEN iter ELSE Some(r.it)
    /\ UNCHANGED <<pc, result, message, pattern, lane_result, yielded, last_next>>
    /\ UNCHANGED input_vars
    /\ UNCHANGED validation_vars
    /\ UNCHANGED polar_vars

\* The holder of the second iterator calls next(): the iterator's own fields
\* change, the borrowed pattern and the other iterator do not.
IterNext2 ==
    /\ pc = "ready"
    /\ iter2 # None
    /\ ~iter2[1].panicked
    /\ LET r == next(pattern[1], iter2[1])
       IN /\ iter2' = Some(r.it)
          /\ last_next2' = Some(r.ret)
          /\ yielded2' = IF r.ret = None THEN yielded2 ELSE Append(yielded2, r.ret[1])
    /\ UNCHANGED <<pc, result, message, pattern, lane_result, iter, yielded, last_next>>
    /\ UNCHANGED input_vars
    /\ UNCHANGED validation_vars
    /\ UNCHANGED polar_vars

Next ==
    \/ CallNew
    \/ CallTryCreate
    \/ LaneStart
    \/ ScanIndex
    \/ Entries
    \/ IterNext
    \/ Lane
    \/ Entries2
    \/ IterNext2

Spec == Init /\ [][Next]_vars

\* One iterator, obtained once and driven by repeated next() calls: the caller
\* of a traversal keeps calling next() until it returns None.
EntriesOnce ==
    /\ iter = None
    /\ Entries

NextDrain ==
    \/ CallNew
    \/ CallTryCreate
    \/ LaneStart
    \/ ScanIndex
    \/ EntriesOnce
    \/ IterNext

SpecDrain == Init /\ [][NextDrain]_vars /\ WF_vars(IterNext)

\* -------------------------------------------------------------------- Polar

\* the dense matrices a factor is drawn from, opaque to the recomposition
Matrices == 1..MaxMatrix

\* struct Polar { r, p_l, p_r }, each an Option<DMatrix<N>>
Polar(r, p_l, p_r) == [r |-> r, p_l |-> p_l, p_r |-> p_r]

\* Result::Ok / Result::Err
Ok(x) == [tag |-> "Ok", val |-> x]

Err(e) == [tag |-> "Err", val |-> e]

\* the product a * b of two dense matrices, kept as the ordered pair of its
\* factors
Mul(a, b) == <<a, b>>

MsgPolarBoth == "Polar recomposition: P and R have not been computed."

MsgPolarP == "Polar recomposition: P has not been computed."

MsgPolarR == "Polar recomposition: R has not been computed."

\* fn recompose_left(self): match (&self.r, &self.p_l), the arms in order
recompose_left(self) ==
    IF self.r # None /\ self.p_l # None THEN Ok(Mul(self.p_l[1], self.r[1]))
    ELSE IF self.r = None /\ self.p_l = None THEN Err(MsgPolarBoth)
    ELSE IF self.r = None THEN Err(MsgPolarP)
    ELSE Err(MsgPolarR)

\* fn recompose_right(self): match (&self.r, &self.p_r), the arms in order
recompose_right(self) ==
    IF self.r # None /\ self.p_r # None THEN Ok(Mul(self.r[1], self.p_r[1]))
    ELSE IF self.r = None /\ self.p_r = None THEN Err(MsgPolarBoth)
    ELSE IF self.r = None THEN Err(MsgPolarP)
    ELSE Err(MsgPolarR)

\* the variables of the sparsity pattern and its readers
pattern_vars == <<pc, result, message, pattern, input_vars, validation_vars, reader_vars>>

\* A caller comes to hold a Polar: the three fields are public, so any of
\* them may be present or absent.
MakePolar ==
    /\ polar = None
    /\ \E r \in {None} \cup {Some(m) : m \in Matrices} :
       \E p_l \in {None} \cup {Some(m) : m \in Matrices} :
       \E p_r \in {None} \cup {Some(m) : m \in Matrices} :
        polar' = Some(Polar(r, p_l, p_r))
    /\ UNCHANGED recomposed
    /\ UNCHANGED pattern_vars

\* The holder calls recompose_left(self): the Polar is moved into the call.
RecomposeLeft ==
    /\ polar # None
    /\ recomposed' = Some([self |-> polar[1], side |-> "left", ret |-> recompose_left(polar[1])])
    /\ polar' = None
    /\ UNCHANGED pattern_vars

\* The holder calls recompose_right(self): the Polar is moved into the call.
RecomposeRight ==
    /\ polar # None
    /\ recomposed' = Some([self |-> polar[1], side |-> "right", ret |-> recompose_right(polar[1])])
    /\ polar' = None
    /\ UNCHANGED pattern_vars

NextPolar ==
    \/ MakePolar
    \/ RecomposeLeft
    \/ RecomposeRight

SpecPolar == Init /\ [][NextPolar]_vars

\* ------------------------------------------------------------------ claims

\* the constructor call has ended (with a pattern, an error or a panic)
Ended == pc \in {"returned", "ready"}

\* offsets[i] and indices[k] of the arguments, 0-based
Off(i) == in_major_offsets[i + 1]

Idx(k) == in_minor_indices[k + 1]

\* C1: try_from_offsets_and_indices is total: every call, malformed input
\* included, ends with a pattern or with one of the three error kinds and
\* never panics.
C1_TryCreateTotal ==
    (origin = "try" /\ Ended) => result \in {"Ok", "InvalidStructure", "IndexOutOfBounds", "DuplicateEntry"}

\* C2: every pattern that exists, from new or from try_from_offsets_and_indices,
\* has major_dim + 1 >= 1 major offsets, the first one 0, non-decreasing, the
\* last one equal to the number of minor indices.
C2_OffsetsWellFormed ==
    pattern # None =>
        LET offs == pattern[1].major_offsets
        IN /\ Len(offs) = in_major_dim + 1
           /\ Len(offs) >= 1
           /\ offs[1] = 0
           /\ \A i \in 1..(Len(offs) - 1) : offs[i] <= offs[i + 1]
           /\ offs[Len(offs)] = Len(pattern[1].minor_indices)

\* a validated pattern with two non-empty lanes around an empty one
C2_Witness ==
    /\ pattern # None
    /\ origin = "try"
    /\ pattern[1].major_offsets = <<0, 1, 1, 2>>

\* C3: in a pattern returned by try_from_offsets_and_indices the minor indices
\* of every lane are strictly increasing, so none occurs twice in a lane.
C3_LanesStrictlyIncreasing ==
    (origin = "try" /\ pattern # None) =>
        LET p == pattern[1]
            lo(i) == p.major_offsets[i + 1]
            hi(i) == p.major_offsets[i + 2]
        IN \A i \in 0..(Len(p.major_offsets) - 2) :
            /\ \A k \in (lo(i) + 1)..(hi(i) - 1) : p.minor_indices[k] < p.minor_indices[k + 1]
            /\ \A k1, k2 \in (lo(i) + 1)..hi(i) : k1 # k2 => p.minor_indices[k1] # p.minor_indices[k2]

\* a validated pattern whose lane 0 is empty and whose lane 1 holds two indices
C3_Witness ==
    /\ origin = "try"
    /\ pattern # None
    /\ pattern[1].major_offsets = <<0, 0, 2>>
    /\ pattern[1].minor_indices = <<0, 1>>

\* C4: every minor index of a pattern returned by try_from_offsets_and_indices
\* is a valid position of the minor axis: strictly less than minor_dim.
C4_MinorIndicesInBounds ==
    (origin = "try" /\ pattern # None) =>
        \A k \in 1..Len(pattern[1].minor_indices) : pattern[1].minor_indices[k] < pattern[1].minor_dim

\* C5: a wrong number of offsets, a first offset other than 0 or a last offset
\* other than the number of minor indices ends the call with InvalidStructure,
\* the three checks made in this order and before any lane or minor index is
\* examined.
C5_StructureChecksFirst ==
    (origin = "try" /\ Ended) =>
        /\ Len(in_major_offsets) # in_major_dim + 1 =>
            (result = "InvalidStructure" /\ message = MsgSize /\ visited = <<>> /\ lane_idx = 0 /\ pc = "returned")
        /\ (Len(in_major_offsets) = in_major_dim + 1 /\ Off(0) # 0) =>
            (result = "InvalidStructure" /\ message = MsgFirst /\ visited = <<>> /\ lane_idx = 0 /\ pc = "returned")
        /\ (Len(in_major_offsets) = in_major_dim + 1 /\ Off(0) = 0 /\ Off(in_major_dim) # Len(in_minor_indices)) =>
            (result = "InvalidStructure" /\ message = MsgLast /\ visited = <<>> /\ lane_idx = 0 /\ pc = "returned")

\* decreasing offsets [0,2,1] whose last offset is not the number of indices
\* fail on the last-offset check
C5_Witness ==
    /\ pc = "returned"
    /\ in_major_dim = 2
    /\ in_major_offsets = <<0, 2, 1>>
    /\ Len(in_minor_indices) = 2
    /\ result = "InvalidStructure"
    /\ message = MsgLast

\* the arguments pass the length, first-offset and last-offset checks
PassesStructureChecks ==
    /\ Len(in_major_offsets) = in_major_dim + 1
    /\ Off(0) = 0
    /\ Off(in_major_dim) = Len(in_minor_indices)

\* the checks that fail when the lanes are scanned in order and each lane left
\* to right, as <<lane, position, order among the checks of a position, kind>>;
\* a lane whose start exceeds its end fails before any of its positions
FailingChecks ==
    UNION { (IF Off(i) > Off(i + 1) THEN {<<i, -1, 0, "InvalidStructure">>} ELSE {})
            \cup {<<i, k, 1, "IndexOutOfBounds">> : k \in {k \in Off(i)..(Off(i + 1) - 1) : Idx(k) > in_minor_dim}}
            \cup {<<i, k, 2, "InvalidStructure">> : k \in {k \in (Off(i) + 1)..(Off(i + 1) - 1) : Idx(k - 1) > Idx(k)}}
            \cup {<<i, k, 3, "DuplicateEntry">> : k \in {k \in (Off(i) + 1)..(Off(i + 1) - 1) : Idx(k - 1) = Idx(k)}}
          : i \in 0..(in_major_dim - 1) }

\* e is met before f in the scan
MetBefore(e, f) ==
    \/ e[1] < f[1]
    \/ e[1] = f[1] /\ e[2] < f[2]
    \/ e[1] = f[1] /\ e[2] = f[2] /\ e[3] < f[3]

\* the outcome the scan order prescribes
FirstFailingCheck ==
    IF FailingChecks = {} THEN "Ok"
    ELSE (CHOOSE e \in FailingChecks : \A f \in FailingChecks : e = f \/ MetBefore(e, f))[4]

ValidInput ==
    /\ PassesStructureChecks
    /\ \A i \in 0..(in_major_dim - 1) : Off(i) <= Off(i + 1)
    /\ \A i \in 0..(in_major_dim - 1) : \A k \in (Off(i) + 1)..(Off(i + 1) - 1) : Idx(k - 1) < Idx(k)
    /\ \A k \in 0..(Len(in_minor_indices) - 1) : Idx(k) < in_minor_dim

\* C7: round trip: well-formed arguments are accepted, and the pattern reads
\* back the offsets, the indices, both dimensions and nnz unchanged.
C7_RoundTrip ==
    (origin = "try" /\ ValidInput) =>
        /\ pc # "returned"
        /\ pc = "ready" =>
            /\ result = "Ok"
            /\ pattern # None
            /\ major_offsets(pattern[1]) = in_major_offsets
            /\ minor_indices(pattern[1]) = in_minor_indices
            /\ major_dim(pattern[1]) = in_major_dim
            /\ minor_dim(pattern[1]) = in_minor_dim
            /\ nnz(pattern[1]) = Len(in_minor_indices)

\* well-formed arguments with a two-entry lane and an empty lane, accepted
C7_Witness ==
    /\ origin = "try"
    /\ ValidInput
    /\ pc = "ready"
    /\ in_major_offsets = <<0, 2, 2>>
    /\ in_minor_indices = <<0, 1>>
    /\ in_minor_dim = 2

\* the pairs of a pattern by direct indexing: the k-th is (i, minor_indices[k])
\* for the lane i with major_offsets[i] <= k < major_offsets[i + 1]
EntriesByIndexing(p) ==
    [k \in 1..Len(p.minor_indices) |->
        <<CHOOSE i \in 0..(Len(p.major_offsets) - 2) : p.major_offsets[i + 1] <= k - 1 /\ k - 1 < p.major_offsets[i + 2],
          p.minor_indices[k]>>]

\* C8: an entries() iterator driven to exhaustion has yielded exactly nnz()
\* pairs, the k-th being (i, minor_indices[k]) for the unique lane i holding
\* position k; until then it has yielded the first of them, in this order.
C8_EntriesMatchIndexing ==
    iter # None =>
        LET p == pattern[1]
            want == EntriesByIndexing(p)
        IN /\ \A k \in 0..(Len(p.minor_indices) - 1) :
                Cardinality({i \in 0..(Len(p.major_offsets) - 2) : p.major_offsets[i + 1] <= k /\ k < p.major_offsets[i + 2]}) = 1
           /\ Len(yielded) <= Len(want)
           /\ yielded = SubSeq(want, 1, Len(yielded))
           /\ last_next = Some(None) => (yielded = want /\ Len(yielded) = nnz(p))
           /\ (last_next # None /\ last_next # Some(None)) => last_next[1][1] = yielded[Len(yielded)]

\* an exhausted iterator over a pattern whose lane 1 is empty, between two
\* lanes of one entry
C8_Witness ==
    /\ iter # None
    /\ last_next = Some(None)
    /\ pattern[1].major_offsets = <<0, 1, 1, 2>>
    /\ yielded = << <<0, 0>>, <<2, 1>> >>

\* C9: lane(i) is None exactly when i >= major_dim; for i < major_dim it is
\* Some of minor_indices[major_offsets[i] .. major_offsets[i + 1]], an empty
\* slice when the lane has no entry.
C9_LaneAbsentOrPresent ==
    lane_result # None =>
        LET p == pattern[1]
            i == lane_result[1].arg
            ret == lane_result[1].ret
        IN /\ (ret = None) = (i >= Len(p.major_offsets) - 1)
           /\ i < Len(p.major_offsets) - 1 =>
                ret = Some([j \in 1..(p.major_offsets[i + 2] - p.major_offsets[i + 1]) |-> p.minor_indices[p.major_offsets[i + 1] + j]])

\* lane(1) of a pattern with entries, lane 1 being empty: present and empty
C9_Witness ==
    /\ lane_result # None
    /\ pattern[1].major_offsets = <<0, 2, 2>>
    /\ lane_result[1].arg = 1
    /\ lane_result[1].ret = Some(<<>>)

\* C10: new(M, N) yields M + 1 zero offsets and no minor index, major_dim() =
\* M, minor_dim() = N, nnz() = 0, lane(i) present and empty for every i < M,
\* and entries() yields nothing.
C10_NewIsEmpty ==
    origin = "new" =>
        /\ pattern # None
        /\ major_offsets(pattern[1]) = [i \in 1..(in_major_dim + 1) |-> 0]
        /\ minor_indices(pattern[1]) = <<>>
        /\ major_dim(pattern[1]) = in_major_dim
        /\ minor_dim(pattern[1]) = in_minor_dim
        /\ nnz(pattern[1]) = 0
        /\ \A i \in 0..(in_major_dim - 1) : lane(pattern[1], i) = Some(<<>>)
        /\ (lane_result # None /\ lane_result[1].arg < in_major_dim) => lane_result[1].ret = Some(<<>>)
        /\ iter # None => (yielded = <<>> /\ ~iter[1].panicked)
        /\ last_next # None => last_next = Some(None)

\* new(0, N): the iterator of the pattern without lanes has ended
C10_Witness ==
    /\ origin = "new"
    /\ in_major_dim = 0
    /\ in_minor_dim = MaxMinor
    /\ last_next = Some(None)

\* the pairs a fresh iterator over p returns when it alone is driven, at most
\* n calls of next() being made
RECURSIVE Drain(_, _, _)
Drain(p, it, n) ==
    IF n = 0 \/ it.panicked THEN <<>>
    ELSE LET r == next(p, it)
         IN IF r.ret = None THEN <<>> ELSE <<r.ret[1]>> \o Drain(p, r.it, n - 1)

\* what entries() yields when nothing else runs: more calls than entries
AloneYields(p) == Drain(p, entries(p), Len(p.minor_indices) + 1)

\* ys is what an iterator has yielded so far of the run it makes alone
YieldsAsAlone(p, ys, last) ==
    /\ Len(ys) <= Len(AloneYields(p))
    /\ ys = SubSeq(AloneYields(p), 1, Len(ys))
    /\ last = Some(None) => ys = AloneYields(p)

\* C11: no read changes the pattern: under any interleaving of lane calls and
\* next() steps of two iterators over one pattern the pattern stays as it is,
\* each iterator yields what it would yield alone, an iterator obtained at any
\* time yields the full sequence of nnz pairs, and lane(i) called again
\* returns the same contents.
C11_ReadersDoNotInterfere ==
    /\ [][pattern # None => pattern' = pattern]_vars
    /\ [](iter # None => YieldsAsAlone(pattern[1], yielded, last_next))
    /\ [](iter2 # None => YieldsAsAlone(pattern[1], yielded2, last_next2))
    /\ [](pattern # None => Len(AloneYields(pattern[1])) = nnz(pattern[1]))
    /\ [][(lane_result # None /\ lane_result' # None /\ lane_result'[1].arg = lane_result[1].arg)
            => lane_result'[1].ret = lane_result[1].ret]_vars

\* the first iterator has ended, a second one obtained later is half way, and
\* lane(0) was called, all on one pattern of two entries in two lanes
C11_Witness ==
    /\ pattern # None
    /\ pattern[1].major_offsets = <<0, 1, 1, 2>>
    /\ iter # None
    /\ last_next = Some(None)
    /\ iter2 # None
    /\ Len(yielded2) = 1
    /\ lane_result # None
    /\ lane_result[1].arg = 0

\* the larger of two integers
Max(a, b) == IF a >= b THEN a ELSE b

\* C12 as stated: from a fresh iterator repeated next() calls return None after
\* exactly nnz() calls that returned a pair, and the lane index, never
\* decreasing, is advanced at most major_dim - 1 times (it starts at 0, so
\* it never exceeds major_dim - 1).
C12_AsStated ==
    iter # None =>
        /\ Len(yielded) <= nnz(pattern[1])
        /\ last_next = Some(None) => Len(yielded) = nnz(pattern[1])
        /\ iter[1].current_lane_idx <= major_dim(pattern[1]) - 1

\* C12, amended: as stated, the lane index being advanced at most
\* max(major_dim - 1, 0) times: a pattern without lanes has major_dim - 1 =
\* -1 and its iterator makes no advance.
C12_TraversalTerminates ==
    /\ (iter # None) ~> (last_next = Some(None))
    /\ [](iter # None =>
            /\ Len(yielded) <= nnz(pattern[1])
            /\ last_next = Some(None) => Len(yielded) = nnz(pattern[1])
            /\ iter[1].current_lane_idx <= Max(major_dim(pattern[1]) - 1, 0))
    /\ [][(iter # None /\ iter' # None) =>
            /\ iter'[1].current_lane_idx >= iter[1].current_lane_idx
            /\ Len(yielded') >= Len(yielded)
            /\ Len(yielded') <= Len(yielded) + 1]_vars

\* a traversal of two entries that crossed the empty lane 1 and the boundary
\* into the last lane, and ended
C12_Witness ==
    /\ iter # None
    /\ pattern[1].major_offsets = <<0, 1, 1, 2>>
    /\ last_next = Some(None)
    /\ Len(yielded) = 2
    /\ iter[1].current_lane_idx = 2

\* an iterator over p is inside the backing arrays: its lane index is a lane
\* of p and its tail is a suffix of that lane's sub-slice
IterInBounds(p, it) ==
    /\ ~it.panicked
    /\ ~next(p, it).it.panicked
    /\ major_dim(p) >= 1 =>
        /\ it.current_lane_idx <= major_dim(p) - 1
        /\ it.current_lane_idx + 1 < Len(major_offsets(p))
        /\ p.major_offsets[it.current_lane_idx + 1] <= it.lo
        /\ it.lo <= it.hi
        /\ it.hi = p.major_offsets[it.current_lane_idx + 2]
        /\ LET whole == lane(p, it.current_lane_idx)[1]
               tail == remaining_minors_in_lane(p, it)
           IN tail = SubSeq(whole, Len(whole) - Len(tail) + 1, Len(whole))
    /\ major_dim(p) = 0 => (it.lo = it.hi /\ remaining_minors_in_lane(p, it) = <<>>)

\* C13: in every state of an iterator over a pattern with major_dim >= 1 the
\* lane index is at most major_dim - 1 and the remaining tail is a suffix of
\* that lane's sub-slice; for major_dim = 0 the tail is empty; next() never
\* reads outside the backing arrays.
C13_IteratorInBounds ==
    /\ iter # None => IterInBounds(pattern[1], iter[1])
    /\ iter2 # None => IterInBounds(pattern[1], iter2[1])

\* an iterator in the middle of lane 1, one of its two entries left
C13_Witness ==
    /\ iter # None
    /\ pattern[1].major_offsets = <<0, 0, 2>>
    /\ iter[1].current_lane_idx = 1
    /\ iter[1].lo = 1
    /\ iter[1].hi = 2
    /\ yielded = << <<1, 0>> >>

\* an iterator whose last next() returned None returns None again and stays
\* as it is
StaysExhausted(p, it, last) ==
    last = Some(None) => (next(p, it).ret = None /\ next(p, it).it = it)

\* C14: the iterator is fused and not restartable: once next() has returned
\* None, every later next() on it returns None and leaves its lane index and
\* tail unchanged.
C14_Fused ==
    /\ [](iter # None => StaysExhausted(pattern[1], iter[1], last_next))
    /\ [](iter2 # None => StaysExhausted(pattern[1], iter2[1], last_next2))
    /\ [][(last_next = Some(None) /\ last_next' # None) =>
            (last_next' = Some(None) /\ iter' = iter /\ yielded' = yielded)]_vars
    /\ [][(last_next2 = Some(None) /\ last_next2' # None) =>
            (last_next2' = Some(None) /\ iter2' = iter2 /\ yielded2' = yielded2)]_vars

\* an iterator that has returned None after two entries of lane 0, the call
\* that returned None having passed the two empty lanes behind it
C14_Witness ==
    /\ iter # None
    /\ last_next = Some(None)
    /\ pattern[1].major_offsets = <<0, 2, 2, 2>>
    /\ Len(yielded) = 2
    /\ iter[1].current_lane_idx = 2
    /\ next(pattern[1], iter[1]).ret = None

\* C15: the validation is a single forward scan: the position examined in
\* minor_indices never decreases, no index is examined twice in any run, and
\* a run that returns a pattern has examined each index exactly once.
C15_SingleForwardScan ==
    origin = "try" =>
        /\ \A a, b \in 1..Len(visited) : a < b => visited[a] < visited[b]
        /\ \A a \in 1..Len(visited) : visited[a] < Len(in_minor_indices)
        /\ result = "Ok" => visited = [k \in 1..Len(in_minor_indices) |-> k - 1]

\* a run that returned a pattern after scanning lane 0, the empty lane 1 and
\* lane 2
C15_Witness ==
    /\ origin = "try"
    /\ result = "Ok"
    /\ in_major_offsets = <<0, 1, 1, 2>>
    /\ visited = <<0, 1>>

\* lane(0) \o lane(1) \o ... \o lane(n - 1) of p
RECURSIVE LanesConcat(_, _)
LanesConcat(p, n) ==
    IF n = 0 THEN <<>> ELSE LanesConcat(p, n - 1) \o lane(p, n - 1)[1]

\* the sum of the lengths of lane(0), ..., lane(n - 1) of p
RECURSIVE LaneLengths(_, _)
LaneLengths(p, n) ==
    IF n = 0 THEN 0 ELSE LaneLengths(p, n - 1) + Len(lane(p, n - 1)[1])

\* [(i, j) for j in lane(i)] for i = 0, ..., n - 1
RECURSIVE LanePairs(_, _)
LanePairs(p, n) ==
    IF n = 0 THEN <<>>
    ELSE LanePairs(p, n - 1) \o [k \in 1..Len(lane(p, n - 1)[1]) |-> <<n - 1, lane(p, n - 1)[1][k]>>]

\* C16: the lanes of a pattern partition its storage: lane(0), ...,
\* lane(major_dim - 1) concatenated are minor_indices(), their lengths sum to
\* nnz(), and the pairs (i, j) for j in lane(i), i ascending, are the
\* sequence entries() yields.
C16_LanesPartitionStorage ==
    pattern # None =>
        LET p == pattern[1]
        IN /\ \A i \in 0..(major_dim(p) - 1) : lane(p, i) # None
           /\ LanesConcat(p, major_dim(p)) = minor_indices(p)
           /\ LaneLengths(p, major_dim(p)) = nnz(p)
           /\ LanePairs(p, major_dim(p)) = AloneYields(p)
           /\ (iter # None /\ last_next = Some(None)) => yielded = LanePairs(p, major_dim(p))

\* a validated pattern of three lanes, the middle one empty, whose iterator
\* has been driven to its end
C16_Witness ==
    /\ origin = "try"
    /\ pattern # None
    /\ pattern[1].major_offsets = <<0, 1, 1, 2>>
    /\ pattern[1].minor_indices = <<1, 0>>
    /\ last_next = Some(None)
    /\ yielded = << <<0, 1>>, <<2, 0>> >>
    /\ LanesConcat(pattern[1], 3) = <<1, 0>>

\* the arguments of the call are those of an empty pattern: major_dim + 1
\* zeros and no minor index
EmptyInput ==
    /\ origin = "try"
    /\ in_major_offsets = [i \in 1..(in_major_dim + 1) |-> 0]
    /\ in_minor_indices = <<>>

\* C17: try_from_offsets_and_indices(M, N, M + 1 zeros, no indices) never
\* fails, inspects no index, and the pattern it returns equals new(M, N)
\* field by field.
C17_EmptyInputEqualsNew ==
    EmptyInput =>
        /\ pc # "returned"
        /\ result \in {"none", "Ok"}
        /\ visited = <<>>
        /\ lane_idx <= in_major_dim
        /\ pc = "ready" =>
            /\ result = "Ok"
            /\ pattern # None
            /\ major_offsets(pattern[1]) = major_offsets(new(in_major_dim, in_minor_dim))
            /\ minor_indices(pattern[1]) = minor_indices(new(in_major_dim, in_minor_dim))
            /\ minor_dim(pattern[1]) = minor_dim(new(in_major_dim, in_minor_dim))
            /\ pattern[1] = new(in_major_dim, in_minor_dim)

\* the validated empty pattern of three lanes
C17_Witness ==
    /\ EmptyInput
    /\ pc = "ready"
    /\ in_major_dim = 3
    /\ in_minor_dim = 2
    /\ pattern = Some(new(3, 2))

\* C18: recompose_left returns Ok exactly when r and p_l are both present,
\* recompose_right exactly when r and p_r are; otherwise the error names what
\* is absent: "R has not been computed" when only r is, "P has not been
\* computed" when only the hermitian factor is, "P and R have not been
\* computed" when both are.
C18_RecomposeNamesAbsent ==
    recomposed # None =>
        LET self == recomposed[1].self
            h == IF recomposed[1].side = "left" THEN self.p_l ELSE self.p_r
            ret == recomposed[1].ret
        IN /\ (ret.tag = "Ok") = (self.r # None /\ h # None)
           /\ ret.tag # "Ok" =>
                /\ ret.tag = "Err"
                /\ (self.r = None /\ h = None) => ret.val = MsgPolarBoth
                /\ (self.r = None /\ h # None) => ret.val = MsgPolarR
                /\ (self.r # None /\ h = None) => ret.val = MsgPolarP

====
